---- MODULE Spec2Model ----
(***************************************************************************)
(* Model of src/hubot-urban-airship-connect.js: the hubot script that      *)
(* keeps an Urban Airship Connect stream configuration (`state`, an        *)
(* objectstate document), an output selector (`output`, a Set of           *)
(* dotpaths), persists both in robot.brain, and forwards every emitted     *)
(* document to the connect stream and an acknowledgement to the rooms.     *)
(*                                                                         *)
(* hubot handles one message at a time and objectstate emits               *)
(* synchronously, so one action below is one whole handler run, the        *)
(* 'data' listeners it triggers included.                                  *)
(*                                                                         *)
(* JavaScript values:                                                      *)
(*   object        function whose DOMAIN is the set of its keys            *)
(*   array         sequence (filters.0 is filters[1])                      *)
(*   string        string; the text matched by a numeric pattern is a      *)
(*                 sequence of one-character strings so that the regular   *)
(*                 expression and Number/parseInt can be computed          *)
(*   proportion    an integer count of hundredths (1.01 is 101)            *)
(***************************************************************************)
EXTENDS Integers, Sequences, FiniteSets, TLC

VARIABLES
    state,      \* the objectstate document (line 80)
    output,     \* the output selector, a Set in insertion order (line 83)
    brain,      \* robot.brain: key -> stored value
    log         \* what the last handled event did: command, arguments,
                \* replies to the requester, effects on brain/stream/rooms

vars == <<state, output, brain, log>>

----------------------------------------------------------------------------
(* Program constants *)

BRAIN_STATE_KEY == "uaconnect:lastState"
BRAIN_OUTPUT_KEY == "uaconnect:lastOutput"

ROOMS == <<"room1", "room2">>

FILTER_KEYS == {"device_types", "notifications", "devices", "types", "latency"}

EVENT_TYPES ==
    <<"PUSH_BODY", "CUSTOM", "TAG_CHANGE", "FIRST_OPEN", "UNINSTALL",
      "RICH_DELIVERY", "RICH_READ", "RICH_DELETE", "IN_APP_MESSAGE_EXPIRATION",
      "IN_APP_MESSAGE_RESOLUTION", "IN_APP_MESSAGE_DISPLAY", "SEND">>

DEVICE_TYPES == <<"ios", "android", "amazon">>

DEFAULT_OUTPUT ==
    <<"device.named_user_id", "device.ios_channel", "device.android_channel",
      "device.amazon_channel", "type", "body">>

Range(s) == {s[i] : i \in 1..Len(s)}

\* FILTERS: filter type -> the values it allows
FILTERS == [device_types |-> Range(DEVICE_TYPES), types |-> Range(EVENT_TYPES)]

DEFAULT_STATE ==
    [filters |-> << [device_types |-> DEVICE_TYPES, types |-> EVENT_TYPES] >>,
     start |-> "LATEST"]

\* The values the header comment of the script documents for each command
\* (lines 11 and 16-20).
DocumentedStartTokens == {"LATEST", "EARLIEST"}

DocumentedFilterValues ==
    [device_types |-> {"ios", "android", "amazon"},
     types |-> {"PUSH_BODY", "OPEN", "CLOSE", "CUSTOM", "LOCATION", "SEND",
                "TAG_CHANGE", "FIRST_OPEN", "UNINSTALL", "RICH_DELIVERY",
                "RICH_READ", "RICH_DELETE", "IN_APP_MESSAGE_EXPIRATION",
                "IN_APP_MESSAGE_DISPLAY"}]

DocumentedClearKeys ==
    {"device_types", "notifications", "devices", "types", "latency"}

----------------------------------------------------------------------------
(* JavaScript objects *)

Has(obj, key) == key \in DOMAIN obj

Without(obj, key) == [k \in DOMAIN obj \ {key} |-> obj[k]]

With(obj, key, value) ==
    [k \in DOMAIN obj \cup {key} |-> IF k = key THEN value ELSE obj[k]]

EmptyObject == [k \in {} |-> 0]

\* Array.prototype.indexOf(x) !== -1
Includes(arr, x) == \E i \in 1..Len(arr) : arr[i] = x

\* Array.prototype.filter(f => f !== x)
RECURSIVE FilterOut(_, _)
FilterOut(arr, x) ==
    IF arr = <<>> THEN <<>>
    ELSE IF Head(arr) = x THEN FilterOut(Tail(arr), x)
         ELSE <<Head(arr)>> \o FilterOut(Tail(arr), x)

\* new Set(array): first occurrences, in order
RECURSIVE NewSet(_)
NewSet(arr) ==
    IF arr = <<>> THEN <<>>
    ELSE LET init == NewSet(SubSeq(arr, 1, Len(arr) - 1))
             last == arr[Len(arr)]
         IN  IF Includes(init, last) THEN init ELSE Append(init, last)

----------------------------------------------------------------------------
(* Text matched by the numeric patterns *)

Digits == {"0", "1", "2", "3", "4", "5", "6", "7", "8", "9"}

DigitValue(c) ==
    CASE c = "0" -> 0 [] c = "1" -> 1 [] c = "2" -> 2 [] c = "3" -> 3
      [] c = "4" -> 4 [] c = "5" -> 5 [] c = "6" -> 6 [] c = "7" -> 7
      [] c = "8" -> 8 [] c = "9" -> 9

\* length of the longest prefix of text matched by \d*
RECURSIVE DigitRun(_)
DigitRun(text) ==
    IF text # <<>> /\ Head(text) \in Digits THEN 1 + DigitRun(Tail(text)) ELSE 0

\* res.match[1] of /^!set subset sample (\d*(\.\d+)?)/i, where text is what
\* follows "!set subset sample ". The pattern is not anchored at its end and
\* both parts of the group may match nothing, so every text matches.
SampleMatch(text) ==
    LET whole == DigitRun(text)
        rest == SubSeq(text, whole + 1, Len(text))
        frac == IF rest # <<>> /\ Head(rest) = "." THEN DigitRun(Tail(rest)) ELSE 0
    IN  IF frac > 0 THEN SubSeq(text, 1, whole + 1 + frac)
        ELSE SubSeq(text, 1, whole)

\* parseInt(digits, 10) of a text matched by \d+
RECURSIVE ParseInt(_)
ParseInt(digits) ==
    IF digits = <<>> THEN 0
    ELSE 10 * ParseInt(SubSeq(digits, 1, Len(digits) - 1))
         + DigitValue(digits[Len(digits)])

\* Number(text), in hundredths, of a text matched by \d*(\.\d+)? with at most
\* two digits after the point; Number("") is 0.
Number(text) ==
    LET whole == DigitRun(text)
        frac == SubSeq(text, whole + 2, Len(text))
    IN  100 * ParseInt(SubSeq(text, 1, whole))
        + (IF Len(frac) = 0 THEN 0
           ELSE IF Len(frac) = 1 THEN 10 * DigitValue(frac[1])
           ELSE 10 * DigitValue(frac[1]) + DigitValue(frac[2]))

----------------------------------------------------------------------------
(* objectstate: the document, whether a wait() is open, and the snapshots *)
(* emitted as 'data' so far in the running handler.                       *)
(* objectstate emits only when a call has changed the document.           *)

objectstate(initial) == [doc |-> initial, waiting |-> FALSE, emitted |-> <<>>]

emitState(m) == [m EXCEPT !.emitted = Append(@, m.doc)]

Changed(m, doc) ==
    IF doc = m.doc THEN m
    ELSE IF m.waiting THEN [m EXCEPT !.doc = doc]
    ELSE emitState([m EXCEPT !.doc = doc])

\* state.write(data): replace the whole document
write(m, data) == Changed(m, data)

\* state.set(key, value) for a top-level key
set(m, key, value) == Changed(m, With(m.doc, key, value))

\* state.remove(key) for a top-level key; emits only if something was removed
remove(m, key) ==
    IF Has(m.doc, key) THEN Changed(m, Without(m.doc, key)) ELSE m

\* state.wait(fn): fn runs with emission suspended, then one emission.
\* WaitEnd(WaitBegin(m).., m) brackets the calls fn makes.
WaitBegin(m) == [m EXCEPT !.waiting = TRUE]

WaitEnd(m, before) ==
    IF m.doc = before.doc THEN [m EXCEPT !.waiting = FALSE]
    ELSE emitState([m EXCEPT !.waiting = FALSE])

\* state.get('filters.0'): the first filter group, as <<group>>, or <<>> when
\* the document has none
FilterGroup(doc) ==
    IF Has(doc, "filters") /\ Len(doc.filters) >= 1 THEN <<doc.filters[1]>> ELSE <<>>

\* state.get(`filters.0.${filterType}`), as <<value>> or <<>> when undefined
getFilter(doc, filterType) ==
    IF FilterGroup(doc) # <<>> /\ Has(FilterGroup(doc)[1], filterType)
    THEN <<FilterGroup(doc)[1][filterType]>>
    ELSE <<>>

\* the document after state.set(`filters.0.${filterType}`, value); missing
\* containers are created
WithFilter(doc, filterType, value) ==
    LET group == IF FilterGroup(doc) # <<>> THEN FilterGroup(doc)[1] ELSE EmptyObject
        groups == IF FilterGroup(doc) # <<>> THEN Tail(doc.filters) ELSE <<>>
    IN  With(doc, "filters", <<With(group, filterType, value)>> \o groups)

setFilter(m, filterType, value) == Changed(m, WithFilter(m.doc, filterType, value))

\* state.remove(`filters.0.${filterType}`)
removeFilter(m, filterType) ==
    IF getFilter(m.doc, filterType) # <<>>
    THEN Changed(m, With(m.doc, "filters",
                         <<Without(m.doc.filters[1], filterType)>>
                             \o Tail(m.doc.filters)))
    ELSE m

----------------------------------------------------------------------------
(* Effects.  An effect is <<"brain", key, value>> (robot.brain.set),       *)
(* <<"stream", document>> (a write to the connect stream) or               *)
(* <<"room", room, message>> (robot.messageRoom).                          *)

\* saveState storing under the selector's key
saveState_wrongKey(data) == <<"brain", BRAIN_OUTPUT_KEY, data>>

saveState(data) == <<"brain", BRAIN_STATE_KEY, data>>

\* Array.from(data) of a Set is its members in insertion order
saveOutput(data) == <<"brain", BRAIN_OUTPUT_KEY, data>>

sendToAll(message) == [i \in 1..Len(ROOMS) |-> <<"room", ROOMS[i], message>>]

\* postError sending the message twice
postError_twice(err) == sendToAll(err) \o sendToAll(err)

postError(err) == sendToAll(err)

\* the 'data' listeners with the pipe to the stream added before saveState
OnData_streamFirst(data) ==
    <<<<"stream", data>>, <<"brain", BRAIN_STATE_KEY, data>>>>
        \o [i \in 1..Len(ROOMS) |-> <<"room", ROOMS[i], "stream settings updated">>]

\* The 'data' listeners of state while commands are handled, in the order
\* they were added: saveState (line 86), the pipe to the stream (line 253)
\* and the acknowledgement (line 256).
OnData(data) ==
    <<saveState(data), <<"stream", data>>>> \o sendToAll("stream settings updated")

RECURSIVE OnEachData(_)
OnEachData(emitted) ==
    IF emitted = <<>> THEN <<>>
    ELSE OnData(Head(emitted)) \o OnEachData(Tail(emitted))

\* robot.brain after the brain effects, in order
RECURSIVE BrainAfter(_, _)
BrainAfter(b, effects) ==
    IF effects = <<>> THEN b
    ELSE LET e == Head(effects)
         IN  BrainAfter(IF e[1] = "brain" THEN With(b, e[2], e[3]) ELSE b,
                        Tail(effects))

\* robot.brain.get(key) || fallback
BrainGet(b, key, fallback) == IF Has(b, key) THEN b[key] ELSE fallback

----------------------------------------------------------------------------
(* Event records and their projection.  A value of a record is            *)
(* [t |-> "s", v |-> string], [t |-> "n", v |-> number] or                 *)
(* [t |-> "o", v |-> <<<<key, value>>, ...>>], an object with its keys in  *)
(* insertion order.  Text is a sequence of pieces.                         *)

Str(v) == [t |-> "s", v |-> v]

Num(v) == [t |-> "n", v |-> v]

Obj(v) == [t |-> "o", v |-> v]

\* id.split('.') for the dotpaths of the model; a path without a dot is its
\* own single part
PathParts(id) ==
    CASE id = "device.named_user_id" -> <<"device", "named_user_id">>
      [] id = "device.ios_channel" -> <<"device", "ios_channel">>
      [] id = "device.android_channel" -> <<"device", "android_channel">>
      [] id = "device.amazon_channel" -> <<"device", "amazon_channel">>
      [] id = "a.b" -> <<"a", "b">>
      [] OTHER -> <<id>>

\* value[key] as <<found>>, or <<>> for undefined
Property(value, key) ==
    IF value.t # "o" THEN <<>>
    ELSE LET hits == {i \in 1..Len(value.v) : value.v[i][1] = key}
         IN  IF hits = {} THEN <<>> ELSE <<value.v[CHOOSE i \in hits : TRUE][2]>>

\* lookup(id)(data) of dotpather, on the parts of id: <<found>>, or <<>> for
\* undefined, also when an object on the way is missing
RECURSIVE Lookup(_, _)
Lookup(parts, value) ==
    IF parts = <<>> THEN <<value>>
    ELSE LET next == Property(value, Head(parts))
         IN  IF next = <<>> THEN <<>> ELSE Lookup(Tail(parts), next[1])

DecimalDigit(n) ==
    CASE n = 0 -> "0" [] n = 1 -> "1" [] n = 2 -> "2" [] n = 3 -> "3"
      [] n = 4 -> "4" [] n = 5 -> "5" [] n = 6 -> "6" [] n = 7 -> "7"
      [] n = 8 -> "8" [] n = 9 -> "9"

\* String(n) of a natural number
RECURSIVE NumberText(_)
NumberText(n) ==
    IF n < 10 THEN <<DecimalDigit(n)>>
    ELSE Append(NumberText(n \div 10), DecimalDigit(n % 10))

\* JSON.stringify(value)
RECURSIVE JSONStringify(_)
RECURSIVE JSONMembers(_)
JSONMembers(members) ==
    IF members = <<>> THEN <<>>
    ELSE <<"\"", Head(members)[1], "\"", ":">> \o JSONStringify(Head(members)[2])
         \o (IF Tail(members) = <<>> THEN <<>> ELSE <<",">> \o JSONMembers(Tail(members)))

JSONStringify(value) ==
    IF value.t = "s" THEN <<"\"", value.v, "\"">>
    ELSE IF value.t = "n" THEN NumberText(value.v)
    ELSE <<"{">> \o JSONMembers(value.v) \o <<"}">>

\* the text of value without the replacement of objects
ValueText_noStringify(value) ==
    IF value.t = "o" THEN <<"[object Object]">>
    ELSE IF value.t = "n" THEN NumberText(value.v)
    ELSE <<value.v>>

\* the text a template literal gives for value (line 280), after the
\* typeof value === 'object' replacement (lines 276-278)
ValueText(value) ==
    IF value.t = "o" THEN JSONStringify(value)
    ELSE IF value.t = "n" THEN NumberText(value.v)
    ELSE <<value.v>>

\* array.join(', ') of texts
RECURSIVE Join(_)
Join(texts) ==
    IF texts = <<>> THEN <<>>
    ELSE IF Len(texts) = 1 THEN texts[1]
    ELSE texts[1] \o <<", ">> \o Join(Tail(texts))

\* ids.filter(id => lookup(id)(data) !== void 0)
RECURSIVE Present(_, _)
Present(ids, data) ==
    IF ids = <<>> THEN <<>>
    ELSE (IF Lookup(PathParts(Head(ids)), data) # <<>> THEN <<Head(ids)>> ELSE <<>>)
         \o Present(Tail(ids), data)

\* the message of postToChannel (lines 271-282)
Message(out, data) ==
    LET ids == Present(out, data)
    IN  Join([i \in 1..Len(ids) |->
                <<ids[i], ": ">> \o ValueText(Lookup(PathParts(ids[i]), data)[1])])

\* postToChannel sending nothing when the message is empty
postToChannel_skipsEmpty(out, data) ==
    IF Message(out, data) = <<>> THEN <<>> ELSE sendToAll(Message(out, data))

\* postToChannel (lines 270-285)
postToChannel(out, data) == sendToAll(Message(out, data))

----------------------------------------------------------------------------
(* A handler run: the objectstate, the selector, the selector saves made,  *)
(* the replies sent with res.send, and whether the handler threw.          *)

Run(doc, out) ==
    [m |-> objectstate(doc), output |-> out, saves |-> <<>>,
     replies |-> <<>>, threw |-> FALSE]

Reply(r, reply) == [r EXCEPT !.replies = Append(@, reply)]

\* reset that leaves the selector as it is
reset_keepsOutput(r) == [r EXCEPT !.m = write(@, DEFAULT_STATE)]

\* !reset (lines 88-91)
reset(r) ==
    [r EXCEPT !.output = NewSet(DEFAULT_OUTPUT), !.m = write(@, DEFAULT_STATE)]

\* text.split(','), text being a sequence of ",", " " and path atoms
RECURSIVE Split(_)
Split(text) ==
    IF \A i \in 1..Len(text) : text[i] # "," THEN <<text>>
    ELSE LET i == CHOOSE j \in 1..Len(text) :
                      text[j] = "," /\ \A k \in 1..(j - 1) : text[k] # ","
         IN  <<SubSeq(text, 1, i - 1)>> \o Split(SubSeq(text, i + 1, Len(text)))

\* s.trim() of a piece holding at most one atom
Trim(piece) ==
    LET atoms == FilterOut(piece, " ")
    IN  IF atoms = <<>> THEN "" ELSE atoms[1]

\* !set output (lines 93-97)
setOutput(r, text) ==
    LET pieces == Split(text)
        out == NewSet([i \in 1..Len(pieces) |-> Trim(pieces[i])])
    IN  Reply([r EXCEPT !.output = out, !.saves = Append(@, saveOutput(out))],
              <<"output settings updated">>)

\* show storing the selector with saveState
show_savesState(r, dotpath) ==
    IF Includes(r.output, dotpath) THEN Reply(r, <<"already showing", dotpath>>)
    ELSE LET out == Append(r.output, dotpath)
         IN  Reply([r EXCEPT !.output = out, !.saves = Append(@, saveState(out))],
                   <<"output settings updated">>)

\* !show (lines 99-110)
show(r, dotpath) ==
    IF Includes(r.output, dotpath) THEN Reply(r, <<"already showing", dotpath>>)
    ELSE LET out == Append(r.output, dotpath)
         IN  Reply([r EXCEPT !.output = out, !.saves = Append(@, saveOutput(out))],
                   <<"output settings updated">>)

\* !hide (lines 112-123)
hide(r, dotpath) ==
    IF ~Includes(r.output, dotpath) THEN Reply(r, <<"not showing", dotpath>>)
    ELSE LET out == FilterOut(r.output, dotpath)
         IN  Reply([r EXCEPT !.output = out, !.saves = Append(@, saveOutput(out))],
                   <<"output settings updated">>)

\* JSON.parse on the payloads the model sends: <<value>>, or <<>> when it throws
JSONParse(text) ==
    CASE text = "{\"start\":\"LATEST\",\"resume_offset\":\"5\"}" ->
            <<[start |-> "LATEST", resume_offset |-> "5"]>>
      [] OTHER -> <<>>

\* !set current (lines 125-136)
setCurrent(r, text) ==
    IF JSONParse(text) = <<>> THEN Reply(r, <<"error parsing JSON">>)
    ELSE [r EXCEPT !.m = write(@, JSONParse(text)[1])]

\* !current (lines 138-141)
current(r) ==
    Reply(Reply(r, <<"state", r.m.doc>>), <<"output", r.output>>)

\* setStart without the removal of resume_offset
setStart_keepsOffset(r, token) == [r EXCEPT !.m = set(@, "start", token)]

\* !set start (lines 143-148)
setStart(r, token) ==
    [r EXCEPT !.m = WaitEnd(set(remove(WaitBegin(@), "resume_offset"),
                                "start", token), @)]

\* !set resume_offset (lines 150-155)
setResumeOffset(r, offset) ==
    [r EXCEPT !.m = WaitEnd(set(remove(WaitBegin(@), "start"),
                                "resume_offset", offset), @)]

\* setSubsetSample without the return after the rejection
setSubsetSample_noReturn(r, text) ==
    LET proportion == Number(SampleMatch(text))
        rejected == IF proportion < 0 \/ proportion > 100
                    THEN Reply(r, <<"invalid proportion value", proportion>>)
                    ELSE r
    IN  [rejected EXCEPT !.m = set(@, "subset",
                                   [type |-> "SAMPLE", proportion |-> proportion])]

\* !set subset sample (lines 157-166)
setSubsetSample(r, text) ==
    LET proportion == Number(SampleMatch(text))
    IN  IF proportion < 0 \/ proportion > 100
        THEN Reply(r, <<"invalid proportion value", proportion>>)
        ELSE [r EXCEPT !.m = set(@, "subset",
                                 [type |-> "SAMPLE", proportion |-> proportion])]

\* setSubsetPartition without the check of selection against count
setSubsetPartition_anySelection(r, countText, selectionText) ==
    LET count == ParseInt(countText)
        selection == ParseInt(selectionText)
    IN  IF count < 1 THEN Reply(r, <<"count cannot be less than 1">>)
        ELSE [r EXCEPT !.m = set(@, "subset",
                                 [type |-> "PARTITION", count |-> count,
                                  selection |-> selection])]

\* !set subset partition (lines 168-183)
setSubsetPartition(r, countText, selectionText) ==
    LET count == ParseInt(countText)
        selection == ParseInt(selectionText)
    IN  IF count < 1 THEN Reply(r, <<"count cannot be less than 1">>)
        ELSE IF selection > count
        THEN Reply(r, <<"selection cannot be larger than count">>)
        ELSE [r EXCEPT !.m = set(@, "subset",
                                 [type |-> "PARTITION", count |-> count,
                                  selection |-> selection])]

\* !clear subset (lines 185-187)
clearSubset(r) == [r EXCEPT !.m = remove(@, "subset")]

\* !filters clear (lines 189-208). Object.keys(undefined) throws when the
\* document has no filters.0.
filtersClear(r, filterType) ==
    IF filterType \in FILTER_KEYS
    THEN Reply(r, <<"invalid filter type", filterType>>)
    ELSE LET removed == getFilter(r.m.doc, filterType) # <<>>
             after == [r EXCEPT !.m = removeFilter(@, filterType)]
         IN  IF removed THEN after
             ELSE IF FilterGroup(after.m.doc) = <<>>
             THEN [after EXCEPT !.threw = TRUE]
             ELSE Reply(after,
                        <<"no filters defined", filterType,
                          DOMAIN FilterGroup(after.m.doc)[1] \cap FILTER_KEYS>>)

\* filtersAddRemove without the checks for a value already included / not
\* included
filtersAddRemove_unchecked(r, operation, filterType, filter) ==
    IF ~Has(FILTERS, filterType)
    THEN Reply(r, <<"invalid filter type", filterType>>)
    ELSE IF filter \notin FILTERS[filterType]
    THEN Reply(r, <<"invalid filter value", filterType, filter>>)
    ELSE LET found == getFilter(r.m.doc, filterType)
             currentFilters == IF found = <<>> THEN <<>> ELSE found[1]
         IN  IF operation = "add"
             THEN [r EXCEPT !.m = setFilter(@, filterType,
                                            Append(currentFilters, filter))]
             ELSE IF operation = "remove"
             THEN [r EXCEPT !.m = setFilter(@, filterType,
                                            FilterOut(currentFilters, filter))]
             ELSE r

\* filtersAddRemove without the check of the value against FILTERS
filtersAddRemove_anyValue(r, operation, filterType, filter) ==
    IF ~Has(FILTERS, filterType)
    THEN Reply(r, <<"invalid filter type", filterType>>)
    ELSE LET found == getFilter(r.m.doc, filterType)
             currentFilters == IF found = <<>> THEN <<>> ELSE found[1]
         IN  IF operation = "add"
             THEN IF Includes(currentFilters, filter)
                  THEN Reply(r, <<"filter already includes", filterType, filter>>)
                  ELSE [r EXCEPT !.m = setFilter(@, filterType,
                                                 Append(currentFilters, filter))]
             ELSE IF operation = "remove"
             THEN IF ~Includes(currentFilters, filter)
                  THEN Reply(r, <<"filter does not include", filterType, filter>>)
                  ELSE [r EXCEPT !.m = setFilter(@, filterType,
                                                 FilterOut(currentFilters, filter))]
             ELSE r

\* !filters add|remove (lines 210-245). The pattern is case-insensitive and
\* operation is the text as typed.
filtersAddRemove(r, operation, filterType, filter) ==
    IF ~Has(FILTERS, filterType)
    THEN Reply(r, <<"invalid filter type", filterType>>)
    ELSE IF filter \notin FILTERS[filterType]
    THEN Reply(r, <<"invalid filter value", filterType, filter>>)
    ELSE LET found == getFilter(r.m.doc, filterType)
             currentFilters == IF found = <<>> THEN <<>> ELSE found[1]
         IN  IF operation = "add"
             THEN IF Includes(currentFilters, filter)
                  THEN Reply(r, <<"filter already includes", filterType, filter>>)
                  ELSE [r EXCEPT !.m = setFilter(@, filterType,
                                                 Append(currentFilters, filter))]
             ELSE IF operation = "remove"
             THEN IF ~Includes(currentFilters, filter)
                  THEN Reply(r, <<"filter does not include", filterType, filter>>)
                  ELSE [r EXCEPT !.m = setFilter(@, filterType,
                                                 FilterOut(currentFilters, filter))]
             ELSE r

----------------------------------------------------------------------------
(* Inputs *)

\* the largest partition count tried when only subset commands are sent
MaxCount == 3

StartTokens == {"LATEST", "foo"}

OffsetTexts == {"5"}

SampleTexts ==
    { <<"0">>, <<"1">>, <<"1", ".", "0", "1">>, <<"-", "0", ".", "0", "1">> }

DigitText(n) ==
    CASE n = 0 -> "0" [] n = 1 -> "1" [] n = 2 -> "2" [] n = 3 -> "3"
      [] n = 4 -> "4" [] n = 5 -> "5" [] n = 6 -> "6" [] n = 7 -> "7"
      [] n = 8 -> "8" [] n = 9 -> "9"

\* the decimal text of n, as typed in a command
RECURSIVE Decimal(_)
Decimal(n) ==
    IF n < 10 THEN <<DigitText(n)>>
    ELSE Append(Decimal(n \div 10), DigitText(n % 10))

CountTexts == { <<"0">>, <<"1">> }

SelectionTexts == { <<"1">>, <<"2">> }

\* every count and selection up to a bound, for the subset commands alone
AllCountTexts == {Decimal(n) : n \in 0..MaxCount}

AllSelectionTexts == {Decimal(n) : n \in 0..(MaxCount + 1)}

FilterTypes == {"device_types", "types", "extra"}

FilterValues == {"ios", "PUSH_BODY", "OPEN"}

Operations == {"add", "remove", "ADD"}

Dotpaths == {"type"}

OutputTexts == { <<"a.b", ",", " ", "type", ",", "a.b">> }

JSONTexts ==
    {"{", "{\"start\":\"LATEST\",\"resume_offset\":\"5\"}"}

ErrorMessages == {"connection lost"}

\* the event records the stream emits, by name
Record(name) ==
    CASE name = "nested" -> Obj(<< <<"a", Obj(<< <<"b", Num(1)>> >>)>> >>)
      [] name = "push" ->
            Obj(<< <<"type", Str("OPEN")>>,
                   <<"body", Obj(<< <<"x", Num(1)>>, <<"name", Str("hi")>> >>)>>,
                   <<"device", Obj(<< <<"ios_channel", Str("abc")>> >>)>> >>)
      [] name = "scalars" -> Obj(<< <<"c", Num(12)>>, <<"body", Str("text")>> >>)
      [] name = "empty" -> Obj(<<>>)

RecordNames == {"push", "empty"}

AllRecordNames == {"nested", "push", "scalars", "empty"}

ProjectionPaths == {"a.b", "c", "body", "type", "device.ios_channel"}

\* the selectors of at most two of the projection paths, in either order
Selectors ==
    {<<>>} \cup {<<p>> : p \in ProjectionPaths}
    \cup {pq \in ProjectionPaths \X ProjectionPaths : pq[1] # pq[2]}

----------------------------------------------------------------------------
(* The script *)

\* setup (lines 78-86 and 253-256): when state.emitState() runs, the
\* listeners of state are saveState and the pipe to the stream.
setup(b) ==
    LET initialState == BrainGet(b, BRAIN_STATE_KEY, DEFAULT_STATE)
        out == NewSet(BrainGet(b, BRAIN_OUTPUT_KEY, DEFAULT_OUTPUT))
        effects == <<saveState(initialState), saveState(initialState),
                     <<"stream", initialState>>>>
    IN  [state |-> initialState, output |-> out, brain |-> BrainAfter(b, effects),
         log |-> [cmd |-> "setup", args |-> <<>>, replies |-> <<>>,
                  effects |-> effects, threw |-> FALSE]]

Init ==
    LET s == setup(EmptyObject)
    IN  /\ state = s.state
        /\ output = s.output
        /\ brain = s.brain
        /\ log = s.log

\* the process restarts and setup runs on the brain as it was left
Restart ==
    LET s == setup(brain)
    IN  /\ state' = s.state
        /\ output' = s.output
        /\ brain' = s.brain
        /\ log' = s.log

\* a command handler has run as r
Handle(cmd, args, r) ==
    LET effects == OnEachData(r.m.emitted) \o r.saves
    IN  /\ state' = r.m.doc
        /\ output' = r.output
        /\ brain' = BrainAfter(brain, effects)
        /\ log' = [cmd |-> cmd, args |-> args, replies |-> r.replies,
                   effects |-> effects, threw |-> r.threw]

Reset == Handle("!reset", <<>>, reset(Run(state, output)))

SetOutput ==
    \E text \in OutputTexts :
        Handle("!set output", <<text>>, setOutput(Run(state, output), text))

Show ==
    \E dotpath \in Dotpaths :
        Handle("!show", <<dotpath>>, show(Run(state, output), dotpath))

Hide ==
    \E dotpath \in Dotpaths :
        Handle("!hide", <<dotpath>>, hide(Run(state, output), dotpath))

SetCurrent ==
    \E text \in JSONTexts :
        Handle("!set current", <<text>>, setCurrent(Run(state, output), text))

Current == Handle("!current", <<>>, current(Run(state, output)))

SetStart ==
    \E token \in StartTokens :
        Handle("!set start", <<token>>, setStart(Run(state, output), token))

SetResumeOffset ==
    \E offset \in OffsetTexts :
        Handle("!set resume_offset", <<offset>>,
               setResumeOffset(Run(state, output), offset))

SetSubsetSample ==
    \E text \in SampleTexts :
        Handle("!set subset sample", <<text>>,
               setSubsetSample(Run(state, output), text))

SetSubsetPartitionFrom(countTexts, selectionTexts) ==
    \E countText \in countTexts, selectionText \in selectionTexts :
        Handle("!set subset partition", <<countText, selectionText>>,
               setSubsetPartition(Run(state, output), countText, selectionText))

SetSubsetPartition == SetSubsetPartitionFrom(CountTexts, SelectionTexts)

SetSubsetPartitionAll == SetSubsetPartitionFrom(AllCountTexts, AllSelectionTexts)

ClearSubset == Handle("!clear subset", <<>>, clearSubset(Run(state, output)))

FiltersClear ==
    \E filterType \in FilterTypes :
        Handle("!filters clear", <<filterType>>,
               filtersClear(Run(state, output), filterType))

FiltersAddRemove ==
    \E operation \in Operations, filterType \in FilterTypes, filter \in FilterValues :
        Handle("!filters", <<operation, filterType, filter>>,
               filtersAddRemove(Run(state, output), operation, filterType, filter))

\* stream 'error' (lines 250-251, 266-268)
StreamError ==
    \E err \in ErrorMessages :
        /\ log' = [cmd |-> "stream error", args |-> <<err>>, replies |-> <<>>,
                   effects |-> postError(err), threw |-> FALSE]
        /\ brain' = BrainAfter(brain, postError(err))
        /\ UNCHANGED <<state, output>>

\* stream 'data' (lines 247-249, 270-285)
StreamDataFrom(names) ==
    \E name \in names :
        /\ log' = [cmd |-> "stream data", args |-> <<name>>, replies |-> <<>>,
                   effects |-> postToChannel(output, Record(name)), threw |-> FALSE]
        /\ brain' = BrainAfter(brain, postToChannel(output, Record(name)))
        /\ UNCHANGED <<state, output>>

StreamData == StreamDataFrom(RecordNames)

StreamDataAll == StreamDataFrom(AllRecordNames)

Next ==
    \/ Restart
    \/ Reset
    \/ SetOutput
    \/ Show
    \/ Hide
    \/ SetCurrent
    \/ Current
    \/ SetStart
    \/ SetResumeOffset
    \/ SetSubsetSample
    \/ SetSubsetPartition
    \/ ClearSubset
    \/ FiltersClear
    \/ FiltersAddRemove
    \/ StreamError
    \/ StreamData

Spec == Init /\ [][Next]_vars

\* sequences of subset commands only
SubsetNext ==
    \/ SetSubsetSample
    \/ SetSubsetPartitionAll
    \/ ClearSubset

SpecSubset == Init /\ [][SubsetNext]_vars

\* sequences of filter commands and resets only
FiltersNext ==
    \/ FiltersAddRemove
    \/ FiltersClear
    \/ Reset

SpecFilters == Init /\ [][FiltersNext]_vars

\* the bot set up with a selector that !set output has stored, then
\* records from the stream and changes of the selector
InitProjection ==
    \E out \in Selectors :
        LET s == setup(With(EmptyObject, BRAIN_OUTPUT_KEY, out))
        IN  /\ state = s.state
            /\ output = s.output
            /\ brain = s.brain
            /\ log = s.log

ProjectionNext ==
    \/ StreamDataAll
    \/ Show
    \/ Hide

SpecProjection == InitProjection /\ [][ProjectionNext]_vars

----------------------------------------------------------------------------
(* Properties *)

\* the document snapshots the last event delivered to the 'data' listeners
\* (the ones written to the brain and to the stream)
Delivered ==
    {log.effects[i][3] : i \in {j \in 1..Len(log.effects) :
                                    /\ log.effects[j][1] = "brain"
                                    /\ log.effects[j][2] = BRAIN_STATE_KEY}}
    \cup {log.effects[i][2] : i \in {j \in 1..Len(log.effects) :
                                         log.effects[j][1] = "stream"}}

ExactlyOnePosition(doc) == Has(doc, "start") # Has(doc, "resume_offset")

\* C1 (as claimed): every snapshot delivered to the observers of the
\* document has exactly one of start and resume_offset, never both and
\* never neither.
C1_DeliveredHaveOnePosition == \A doc \in Delivered : ExactlyOnePosition(doc)

\* C2: after !set start the document has start, set to the token given, and
\* no resume_offset; after !set resume_offset it has resume_offset, set to
\* the offset given, and no start.
C2_MutualExclusion ==
    /\ log.cmd = "!set start" =>
          /\ Has(state, "start") /\ state.start = log.args[1]
          /\ ~Has(state, "resume_offset")
    /\ log.cmd = "!set resume_offset" =>
          /\ Has(state, "resume_offset") /\ state.resume_offset = log.args[1]
          /\ ~Has(state, "start")

\* C2 witness: a !set resume_offset has switched a document that had start.
C2_Witness ==
    /\ log.cmd = "!set resume_offset"
    /\ Has(state, "resume_offset") /\ ~Has(state, "start")
    /\ <<"stream", state>> \in Range(log.effects)

\* the proportion a text states, in hundredths, sign included
Typed(text) ==
    IF text # <<>> /\ Head(text) = "-" THEN 0 - Number(Tail(text)) ELSE Number(text)

SameSubset(a, b) ==
    /\ Has(a, "subset") = Has(b, "subset")
    /\ Has(a, "subset") => a.subset = b.subset

\* C3 (as claimed): !set subset sample <p> sets subset to the Sample policy
\* with proportion p when 0 <= p <= 1; for p outside [0,1] it replies with an
\* error and leaves subset as it was.
C3_SampleBoundary ==
    [][log'.cmd = "!set subset sample" =>
          LET p == Typed(log'.args[1])
          IN  IF 0 <= p /\ p <= 100
              THEN /\ Has(state', "subset")
                   /\ state'.subset = [type |-> "SAMPLE", proportion |-> p]
              ELSE /\ log'.replies # <<>>
                   /\ SameSubset(state, state')]_vars

\* C4 (as claimed): !filters clear <key> with a key of the fixed filter-key
\* set that has a value list in filters[0] removes filters[0][key]; the
\* command replies only when nothing existed for the key.
C4_ClearRemovesKnownKey ==
    [][(/\ log'.cmd = "!filters clear"
        /\ log'.args[1] \in DocumentedClearKeys
        /\ getFilter(state, log'.args[1]) # <<>>)
          => /\ getFilter(state', log'.args[1]) = <<>>
             /\ log'.replies = <<>>]_vars

\* the selector a restart would load
ReloadedOutput == NewSet(BrainGet(brain, BRAIN_OUTPUT_KEY, DEFAULT_OUTPUT))

\* C5 (as claimed): at startup and after !show, !hide, !set output and !reset
\* the selector a restart would load from the brain is the selector in memory.
C5_SelectorDurable ==
    log.cmd \in {"setup", "!show", "!hide", "!set output", "!reset"}
        => ReloadedOutput = output

\* C6: after !reset the document is the built-in default (one filter group
\* with the full device-type and event-type lists, start LATEST, no
\* resume_offset, no subset) and the selector is the built-in default.
C6_ResetRestoresDefaults ==
    log.cmd = "!reset" =>
        /\ DOMAIN state = {"filters", "start"}
        /\ state.start = "LATEST"
        /\ Len(state.filters) = 1
        /\ DOMAIN state.filters[1] = {"device_types", "types"}
        /\ state.filters[1].device_types = <<"ios", "android", "amazon">>
        /\ state.filters[1].types = EVENT_TYPES
        /\ output = <<"device.named_user_id", "device.ios_channel",
                      "device.android_channel", "device.amazon_channel",
                      "type", "body">>

\* C6 witness: a !reset has replaced a changed document (it was emitted) while
\* the selector last saved was not the default one.
C6_Witness ==
    /\ log.cmd = "!reset"
    /\ <<"stream", state>> \in Range(log.effects)
    /\ Has(brain, BRAIN_OUTPUT_KEY) /\ brain[BRAIN_OUTPUT_KEY] # DEFAULT_OUTPUT

\* C7 (as claimed): a value the command documentation lists for device_types
\* or types is never answered with the invalid-value rejection.
C7_DocumentedValuesAccepted ==
    (/\ log.cmd = "!filters"
     /\ Has(DocumentedFilterValues, log.args[2])
     /\ log.args[3] \in DocumentedFilterValues[log.args[2]])
        => \A i \in 1..Len(log.replies) : log.replies[i][1] # "invalid filter value"

\* the value list of filters[0][filterType], empty when there is none
ListOf(doc, filterType) ==
    IF getFilter(doc, filterType) = <<>> THEN <<>> ELSE getFilter(doc, filterType)[1]

\* after differs from before only in filters[0][filterType]
OnlyFilterChanged(before, after, filterType) ==
    /\ DOMAIN after = DOMAIN before \cup {"filters"}
    /\ \A k \in DOMAIN before \ {"filters"} : after[k] = before[k]
    /\ Len(after.filters) >= 1
    /\ \A k \in DOMAIN after.filters[1] \ {filterType} :
          getFilter(before, k) = <<after.filters[1][k]>>
    /\ \A k \in FilterTypes \ {filterType} :
          getFilter(before, k) # <<>> => Has(after.filters[1], k)

\* C8: !filters add of a legal value already in filters[0][key], and !filters
\* remove of a legal value not in it, leave the document unchanged, emit
\* nothing and reply with a rejection; an accepted add appends the value, an
\* accepted remove deletes it, and nothing else in the document changes.
C8_IdempotentRejection ==
    [][(/\ log'.cmd = "!filters"
        /\ Has(FILTERS, log'.args[2])
        /\ log'.args[3] \in FILTERS[log'.args[2]]
        /\ log'.args[1] \in {"add", "remove"})
          => LET key == log'.args[2]
                 value == log'.args[3]
                 before == ListOf(state, key)
                 after == ListOf(state', key)
                 present == \E i \in 1..Len(before) : before[i] = value
             IN  IF (log'.args[1] = "add") = present
                 THEN /\ state' = state
                      /\ log'.effects = <<>>
                      /\ Len(log'.replies) = 1
                 ELSE /\ log'.replies = <<>>
                      /\ getFilter(state', key) # <<>>
                      /\ OnlyFilterChanged(state, state', key)
                      /\ IF log'.args[1] = "add"
                         THEN after = before \o <<value>>
                         ELSE \E i \in 1..Len(before) :
                                 /\ before[i] = value
                                 /\ after = SubSeq(before, 1, i - 1)
                                              \o SubSeq(before, i + 1, Len(before))]_vars

\* C8 witness: an add of a value already included was rejected.
C8_Witness ==
    /\ log.cmd = "!filters"
    /\ log.args = <<"add", "device_types", "ios">>
    /\ log.replies = << <<"filter already includes", "device_types", "ios">> >>
    /\ ListOf(state, "device_types") = <<"android", "amazon", "ios">>

\* C9 (as claimed): whenever the document has start, its value is EARLIEST or
\* LATEST.
C9_StartDomain == Has(state, "start") => state.start \in DocumentedStartTokens

ValidSubset(doc) ==
    Has(doc, "subset") =>
        IF doc.subset.type = "SAMPLE"
        THEN 0 <= doc.subset.proportion /\ doc.subset.proportion <= 100
        ELSE /\ doc.subset.type = "PARTITION"
             /\ doc.subset.count >= 1
             /\ doc.subset.selection <= doc.subset.count

PartitionStep ==
    log'.cmd = "!set subset partition" =>
        \A count \in 0..MaxCount, selection \in 0..(MaxCount + 1) :
            log'.args = <<Decimal(count), Decimal(selection)>> =>
                IF count >= 1 /\ selection <= count
                THEN /\ Has(state', "subset")
                     /\ state'.subset = [type |-> "PARTITION", count |-> count,
                                         selection |-> selection]
                     /\ log'.replies = <<>>
                ELSE /\ Len(log'.replies) = 1
                     /\ state' = state

\* C10: !set subset partition <count> <selection> sets subset to the
\* Partition policy exactly when count >= 1 and selection <= count, and
\* otherwise replies with a rejection and leaves the document unchanged;
\* under subset commands only, subset when present is a Sample with
\* proportion in [0,1] or a Partition with count >= 1 and selection <= count.
C10_PartitionBoundary == []ValidSubset(state) /\ [][PartitionStep]_vars

\* C10 witness: `3 4` was rejected and left the Partition set by `1 1`.
C10_Witness ==
    /\ log.cmd = "!set subset partition"
    /\ log.args = << <<"3">>, <<"4">> >>
    /\ log.replies = << <<"selection cannot be larger than count">> >>
    /\ Has(state, "subset")
    /\ state.subset = [type |-> "PARTITION", count |-> 1, selection |-> 1]

\* the replies that reject a command
RejectionKinds ==
    {"error parsing JSON", "invalid filter type", "invalid filter value",
     "filter already includes", "filter does not include", "no filters defined",
     "invalid proportion value", "count cannot be less than 1",
     "selection cannot be larger than count", "already showing", "not showing"}

Rejected == \E i \in 1..Len(log.replies) : log.replies[i][1] \in RejectionKinds

\* C11 (as claimed): no handler terminates with an uncaught exception, on
\* any reachable document, including one installed by !set current that has
\* no filters; a command with nothing to do ends with a reply.
C11_NoRejectionThrows == ~log.threw

\* C12: a command answered with a parse-error or validation-rejection reply
\* leaves the document, the selector and both persisted entries as they
\* were, forwards nothing to the stream and broadcasts no acknowledgement.
C12_RejectionsChangeNothing ==
    [][Rejected' => /\ state' = state
                    /\ output' = output
                    /\ brain' = brain
                    /\ log'.effects = <<>>]_vars

\* C12 witness: malformed JSON given to !set current was rejected.
C12_Witness ==
    /\ log.cmd = "!set current"
    /\ log.args = <<"{">>
    /\ log.replies = << <<"error parsing JSON">> >>
    /\ log.effects = <<>>

\* the acknowledgement to every room, in room order, follows position i
AcknowledgedAfter(effects, i) ==
    \A k \in 1..Len(ROOMS) :
        /\ i + k <= Len(effects)
        /\ effects[i + k][1] = "room"
        /\ effects[i + k][2] = ROOMS[k]
        /\ effects[i + k][3] = "stream settings updated"

\* each snapshot handed to the stream was stored just before and is
\* acknowledged just after
StoredForwardedAcknowledged(effects) ==
    \A i \in 1..Len(effects) :
        effects[i][1] = "stream" =>
            /\ i > 1
            /\ effects[i - 1][1] = "brain"
            /\ effects[i - 1][2] = BRAIN_STATE_KEY
            /\ effects[i - 1][3] = effects[i][2]
            /\ AcknowledgedAfter(effects, i)

\* C13: for every change of the document by a command after startup, the
\* new snapshot is written to the store, then handed to the stream, then
\* acknowledged to every room, all within the handling of that command; the
\* stream is never handed a snapshot that was not stored first.
C13_NotificationOrder ==
    [][log'.cmd # "setup" =>
          /\ StoredForwardedAcknowledged(log'.effects)
          /\ state' # state =>
                \E i \in 1..Len(log'.effects) :
                    /\ log'.effects[i][1] = "stream"
                    /\ log'.effects[i][2] = state']_vars

\* C13 witness: !set start stored, forwarded and acknowledged the new
\* snapshot, in that order.
C13_Witness ==
    /\ log.cmd = "!set start"
    /\ log.effects = << <<"brain", BRAIN_STATE_KEY, state>>, <<"stream", state>>,
                        <<"room", "room1", "stream settings updated">>,
                        <<"room", "room2", "stream settings updated">> >>

\* C14: after startup and after every command, the persisted document entry
\* equals the in-memory document.
C14_DocumentDurable ==
    /\ Has(brain, BRAIN_STATE_KEY)
    /\ brain[BRAIN_STATE_KEY] = state

\* C14 witness: !set resume_offset changed the document and the persisted
\* entry holds the new document.
C14_Witness ==
    /\ log.cmd = "!set resume_offset"
    /\ log.effects # <<>>
    /\ Has(state, "resume_offset")
    /\ Has(brain, BRAIN_STATE_KEY)
    /\ brain[BRAIN_STATE_KEY] = state

\* C15: !show, !hide and !set output, accepted or rejected, leave the
\* document and its persisted entry unchanged, forward nothing to the
\* stream and broadcast no acknowledgement; they change at most the selector
\* and its persisted entry.
C15_SelectorBypassesDocument ==
    [][log'.cmd \in {"!show", "!hide", "!set output"} =>
          /\ state' = state
          /\ DOMAIN brain' \ {BRAIN_OUTPUT_KEY} = DOMAIN brain \ {BRAIN_OUTPUT_KEY}
          /\ \A k \in DOMAIN brain \ {BRAIN_OUTPUT_KEY} : brain'[k] = brain[k]
          /\ \A i \in 1..Len(log'.effects) :
                /\ log'.effects[i][1] = "brain"
                /\ log'.effects[i][2] = BRAIN_OUTPUT_KEY]_vars

\* C15 witness: an accepted !show stored the new selector and nothing else.
C15_Witness ==
    /\ log.cmd = "!show"
    /\ log.replies = << <<"output settings updated">> >>
    /\ log.effects = << <<"brain", BRAIN_OUTPUT_KEY, output>> >>
    /\ Includes(output, log.args[1])

\* the text of the value a path has in a record, <<>> when the record has
\* no value there
ExpectedValue(name, id) ==
    CASE name = "nested" /\ id = "a.b" -> <<"1">>
      [] name = "push" /\ id = "type" -> <<"OPEN">>
      [] name = "push" /\ id = "device.ios_channel" -> <<"abc">>
      [] name = "push" /\ id = "body" ->
            <<"{", "\"", "x", "\"", ":", "1", ",",
              "\"", "name", "\"", ":", "\"", "hi", "\"", "}">>
      [] name = "scalars" /\ id = "c" -> <<"1", "2">>
      [] name = "scalars" /\ id = "body" -> <<"text">>
      [] OTHER -> <<>>

\* the line for a selector: `path: value` for the paths with a value, in
\* selector order, separated by `, `
RECURSIVE Projection(_, _, _)
Projection(out, name, first) ==
    IF out = <<>> THEN <<>>
    ELSE IF ExpectedValue(name, Head(out)) = <<>> THEN Projection(Tail(out), name, first)
    ELSE (IF first THEN <<>> ELSE <<", ">>)
         \o <<Head(out), ": ">> \o ExpectedValue(name, Head(out))
         \o Projection(Tail(out), name, FALSE)

\* C16: the line rendered for a record is the `, `-joined sequence of
\* `path: value` entries for exactly the selector paths that have a value in
\* the record, in selector order; a path without a value contributes nothing
\* and raises no error; a composite value is rendered as its JSON text.
C16_Projection ==
    log.cmd = "stream data" =>
        /\ ~log.threw
        /\ log.effects # <<>>
        /\ \A i \in 1..Len(log.effects) :
              log.effects[i][3] = Projection(output, log.args[1], TRUE)

\* C16 witness: with selector (a.b, c), the record {a: {b: 1}} gave the
\* line `a.b: 1`.
C16_Witness ==
    /\ log.cmd = "stream data"
    /\ log.args = <<"nested">>
    /\ output = <<"a.b", "c">>
    /\ log.effects[1][3] = <<"a.b", ": ", "1">>

\* C17: each record from the stream sends exactly one line to each room, in
\* room order, the same line to all, also when the line is empty; the
\* document and the selector stay as they were.
C17_OneBroadcastPerRecord ==
    [][log'.cmd = "stream data" =>
          /\ Len(log'.effects) = Len(ROOMS)
          /\ \A i \in 1..Len(ROOMS) :
                /\ log'.effects[i][1] = "room"
                /\ log'.effects[i][2] = ROOMS[i]
                /\ log'.effects[i][3] = log'.effects[1][3]
          /\ state' = state
          /\ output' = output]_vars

\* C17 witness: with an empty selector the empty line went to both rooms.
C17_Witness ==
    /\ log.cmd = "stream data"
    /\ log.args = <<"push">>
    /\ output = <<>>
    /\ log.effects = << <<"room", "room1", <<>> >>, <<"room", "room2", <<>> >> >>

\* C18: a stream error sends the error's message once to each room, in room
\* order, and nothing else; the document, the selector and both persisted
\* entries stay as they were.
C18_StreamErrorBroadcastOnce ==
    [][log'.cmd = "stream error" =>
          /\ Len(log'.effects) = Len(ROOMS)
          /\ \A i \in 1..Len(ROOMS) :
                /\ log'.effects[i][1] = "room"
                /\ log'.effects[i][2] = ROOMS[i]
                /\ log'.effects[i][3] = log'.args[1]
          /\ state' = state
          /\ output' = output
          /\ brain' = brain]_vars

\* C18 witness: the error "connection lost" was sent to both rooms.
C18_Witness ==
    /\ log.cmd = "stream error"
    /\ log.effects = << <<"room", "room1", "connection lost">>,
                        <<"room", "room2", "connection lost">> >>

\* C19 (as claimed): every message matching !filters (add|remove) <key>
\* <value>, in any letter case, ends in exactly one of: filters[0][key]
\* changed, or a rejection reply.
C19_FilterCommandAnswered ==
    [][log'.cmd = "!filters" =>
          (ListOf(state', log'.args[2]) # ListOf(state, log'.args[2]))
            # Rejected']_vars

\* C20: from the built-in default, after any sequence of !filters add,
\* !filters remove, !filters clear and !reset, filters[0].device_types and
\* filters[0].types, when present, have no duplicates and hold only members
\* of DEVICE_TYPES and EVENT_TYPES.
C20_FilterListsValid ==
    \A key \in {"device_types", "types"} :
        LET list == ListOf(state, key)
        IN  /\ \A i, j \in 1..Len(list) : list[i] = list[j] => i = j
            /\ \A i \in 1..Len(list) : list[i] \in FILTERS[key]

\* C20 witness: ios was removed and added again, and is last in the list.
C20_Witness ==
    /\ log.cmd = "!filters"
    /\ log.args = <<"add", "device_types", "ios">>
    /\ log.effects # <<>>
    /\ ListOf(state, "device_types") = <<"android", "amazon", "ios">>

====
